---- MODULE Spec2Model ----
(***************************************************************************)
(* Model of python/micro_eval/tuning/tune_relay_microtvm.py: the module    *)
(* level device selection, main(), update_rpc_server_dev_cfg(),            *)
(* get_tasks(), tune_model() and get_num_devices().                        *)
(*                                                                         *)
(* The script is one sequential Python program; pc is its position.  The   *)
(* calls into the compiler framework (task extraction, the tuner, the      *)
(* tracker) are modelled by every outcome they can hand back: a value      *)
(* drawn from a bounded set, or an exception.                              *)
(***************************************************************************)
EXTENDS Integers, Sequences, FiniteSets, TLC

(***************************************************************************)
(* Bounds of the model.                                                    *)
(***************************************************************************)
MaxKeys == 2          \* longest TEMPLATE_KEYS list
MaxTasks == 4         \* longest task list task extraction hands back
MaxSummary == 4       \* longest tracker summary, in text atoms
MaxParallel == 1      \* largest explicit N_PARALLEL

(***************************************************************************)
(* Program constants.                                                      *)
(***************************************************************************)
N_TRIAL == 500
EARLY_STOPPING == 250
N_PER_TRIAL == 15
TIMEOUT == 0
TRACKER_PORT == 9190
BASE_SERVER_PORT == 6666
NUM_RPC_SERVERS == 10
NUM_EXPECTED_TASKS == 3
TOP_K == 5

None == "None"             \* the exception slot when nothing was raised
HOST_DEVICE_ID == "host"
STM32_DEVICE_ID == "arm.stm32f746xx"
OTHER_DEVICE_ID == "riscv.spike"
DeviceIds == {HOST_DEVICE_ID, STM32_DEVICE_ID, OTHER_DEVICE_ID}

KnownTemplateKeys == {"direct", "direct_simd", "partial_im2col"}
\* the keys a TEMPLATE_KEYS list is drawn from: the three of the commented
\* list of main, and one key no branch knows
KeyOrder == <<"direct", "direct_simd", "partial_im2col", "winograd">>
AllTemplateKeys == {KeyOrder[i] : i \in 1..Len(KeyOrder)}

ENV_VAR == "MICRO_RPC_SERVER_DEV_CONFIG_BASE"

\* The names the module can resolve: builtins and what lines 24-71 import or
\* the module assigns.  RuntimeErorr, CMSIS_HEADERS and
\* RPC_SERVER_DEV_CONFIG_BASE are used by the script and are not among them.
ModuleGlobals ==
    {"RuntimeError", "AssertionError", "CMSIS_PATH", "CMSIS_INCLUDE_PATHS",
     "custom_pick_best", "gen_cifar10_cnn", "collect_conv_tasks",
     "DEVICE_ID", "TARGET", "DEV_CONFIG", "json", "os", "micro", "autotvm"}

\* Python's name resolution: an unbound name raises NameError
Resolves(name) == name \in ModuleGlobals

\* `raise Exc(...)`: evaluating the name Exc comes first
RaiseOf(name) == IF Resolves(name) THEN name ELSE "NameError"

VARIABLES
    DEVICE_ID,        \* line 121
    TEMPLATE_KEYS,    \* line 424
    N_PARALLEL,       \* line 165
    environ,          \* os.environ, as the set of names it holds
    pc,               \* position of the program
    error,            \* the exception that ended the program, or None
    raised_in,        \* the function it was raised in
    DEV_CONFIG,       \* line 157, the module-level dictionary
    generated,        \* what generate_config() returned at line 157
    cfg_files,        \* the utvm_dev_config.json files written, by i
    warnings,         \* number of warnings printed (line 317)
    template_idx,     \* position of the for loop of main
    phase_log,        \* calls of main that have returned, in order
    extracted,        \* get_tasks: local `tasks`
    cnn_built,        \* get_tasks: gen_cifar10_cnn has been called
    tasks,            \* tune_model: parameter `tasks`
    summary,          \* get_num_devices: local `summary`
    n_parallel,       \* tune_model: local `n_parallel`
    cc_arg,           \* tune_model: argument handed to cross_compiler
    runner,           \* tune_model: the RPCRunner's arguments
    task_i,           \* tune_model: position of the for loop (1-based)
    tuning,           \* tasks whose tuner.tune call is in progress
    tuned,            \* tasks whose tuner.tune call returned, in order
    call,             \* arguments of the tuner.tune call in progress / last
    measured,         \* the tune call in progress has logged its records
    logged,           \* records logged by this tune_model call, in order
    fs_at_entry,      \* the log files as they were when tune_model began
    pick_calls,       \* custom_pick_best calls of this tune_model call, by arguments
    fs                \* the log files, by name

cfgvars == <<DEVICE_ID, TEMPLATE_KEYS, N_PARALLEL, environ>>
ctlvars == <<pc, error, raised_in>>
devvars == <<DEV_CONFIG, generated, cfg_files, warnings>>
mainvars == <<template_idx, phase_log>>
gtvars == <<extracted, cnn_built>>
tmvars == <<tasks, summary, n_parallel, cc_arg, runner, task_i, tuning, tuned,
            call, measured, logged, fs_at_entry, pick_calls>>
fsvars == <<fs>>
vars == <<cfgvars, ctlvars, devvars, mainvars, gtvars, tmvars, fsvars>>

\* values of slots that hold nothing yet
NoConfig == [unset |-> TRUE]
NoCall == [unset |-> TRUE]
NoSummary == <<"no summary">>

\* N_PARALLEL and n_parallel: {} is Python's None, {n} the integer n
PyNone == {}
PyInt(n) == {n}

\* a log file: absent, or present with the records appended so far.  The
\* records one tune call logs for its task are one entry, named by the
\* workload they measure.
AbsentFile == [exists |-> FALSE, recs |-> <<>>]
File(recs) == [exists |-> TRUE, recs |-> recs]
\* what an earlier run left in a log, and what this run logs for task i
\* under template key `key`
StaleRecord == <<"stale", "task", 0>>
Record(key, i) == <<key, "task", i>>

(***************************************************************************)
(* Helpers.                                                                *)
(***************************************************************************)
Min(a, b) == IF a <= b THEN a ELSE b

Range(s) == {s[i] : i \in 1..Len(s)}

\* all sequences over S of length at most n
SeqsUpTo(S, n) == UNION {[1..k -> S] : k \in 0..n}

\* d[k] = v on a Python dict (the key is added when absent)
DictSet(d, k, v) ==
    [x \in DOMAIN d \cup {k} |-> IF x = k THEN v ELSE d[x]]

\* the contiguous slices of KeyOrder of length 1..MaxKeys
TemplateKeyLists ==
    {SubSeq(KeyOrder, a, b) :
        <<a, b>> \in {p \in (1..Len(KeyOrder)) \X (1..Len(KeyOrder)) :
                        p[1] <= p[2] /\ p[2] - p[1] < MaxKeys}}

\* the log file name of line 427, and the temporary one of line 254
LogFileName(dev, key) == <<dev, key, "e2e", "log">>
TmpLogFileName(name) == name \o <<"tmp">>

CurrentKey == TEMPLATE_KEYS[template_idx]

\* line 427
log_file_name == LogFileName(DEVICE_ID, CurrentKey)

FileNames ==
    UNION {{LogFileName(d, k), TmpLogFileName(LogFileName(d, k))} :
             <<d, k>> \in DeviceIds \X AllTemplateKeys}

\* the file system with no log file in it
NoFiles == [f \in FileNames |-> AbsentFile]

(***************************************************************************)
(* Module level: device selection (lines 121-157).                         *)
(***************************************************************************)
\* host.generate_config(section_constraints=None)
HostGenerateConfig ==
    [device_id |-> HOST_DEVICE_ID,
     comms_method |-> "host",
     mem_layout |-> [default_of |-> HOST_DEVICE_ID]]

Abort(exc, fn) ==
    /\ pc' = "aborted"
    /\ error' = exc
    /\ raised_in' = fn

\* lines 124-142: the stm32f746xx branch reads CMSIS_HEADERS at line 132
LoadStm32 ==
    /\ pc = "load"
    /\ DEVICE_ID = STM32_DEVICE_ID
    /\ IF Resolves("CMSIS_HEADERS")
       THEN /\ DEV_CONFIG' = [device_id |-> STM32_DEVICE_ID,
                              comms_method |-> "openocd",
                              server_addr |-> "127.0.0.1",
                              server_port |-> BASE_SERVER_PORT,
                              mem_layout |-> [default_of |-> STM32_DEVICE_ID]]
            /\ generated' = DEV_CONFIG'
            /\ pc' = "main_for"
            /\ UNCHANGED <<error, raised_in>>
       ELSE /\ Abort("NameError", "module")
            /\ UNCHANGED <<DEV_CONFIG, generated>>
    /\ UNCHANGED <<cfgvars, cfg_files, warnings, mainvars, gtvars, tmvars, fsvars>>

\* lines 143-153 and 157
LoadHost ==
    /\ pc = "load"
    /\ DEVICE_ID # STM32_DEVICE_ID
    /\ DEVICE_ID = HOST_DEVICE_ID
    /\ DEV_CONFIG' = HostGenerateConfig
    /\ generated' = HostGenerateConfig
    /\ pc' = "main_for"
    /\ UNCHANGED <<cfgvars, error, raised_in, cfg_files, warnings, mainvars,
                   gtvars, tmvars, fsvars>>

\* the exception line 155 ends the module load with
UnknownDeviceError == RaiseOf("RuntimeErorr")

\* lines 154-155
LoadUnknown ==
    /\ pc = "load"
    /\ DEVICE_ID # STM32_DEVICE_ID
    /\ DEVICE_ID # HOST_DEVICE_ID
    /\ Abort(UnknownDeviceError, "module")
    /\ UNCHANGED <<cfgvars, devvars, mainvars, gtvars, tmvars, fsvars>>

(***************************************************************************)
(* main (lines 422-432).                                                   *)
(***************************************************************************)
\* line 426: the for loop takes the next template key, or main returns
MainFor ==
    /\ pc = "main_for"
    /\ IF template_idx <= Len(TEMPLATE_KEYS)
       THEN pc' = "upd_enter"
       ELSE pc' = "done"
    /\ UNCHANGED <<cfgvars, error, raised_in, devvars, mainvars, gtvars,
                   tmvars, fsvars>>

Returned(fn) == Append(phase_log, <<fn, CurrentKey>>)

(***************************************************************************)
(* update_rpc_server_dev_cfg (lines 314-365).                              *)
(***************************************************************************)
\* line 315 with the test turned round (`in` for `not in`)
EnvMissingInverted == ENV_VAR \in environ

\* line 315
EnvMissing == ENV_VAR \notin environ

\* lines 315-318: the warning, then input() blocks
UpdateWarn ==
    /\ pc = "upd_enter"
    /\ EnvMissing
    /\ warnings' = warnings + 1
    /\ pc' = "upd_input"
    /\ UNCHANGED <<cfgvars, error, raised_in, DEV_CONFIG, generated, cfg_files,
                   mainvars, gtvars, tmvars, fsvars>>

\* lines 318-319: the operator presses enter, the function returns
UpdateAcknowledged ==
    /\ pc = "upd_input"
    /\ phase_log' = Returned("update_rpc_server_dev_cfg")
    /\ pc' = "gt_enter"
    /\ UNCHANGED <<cfgvars, error, raised_in, devvars, template_idx, gtvars,
                   tmvars, fsvars>>

\* the section constraints handed to gen_mem_layout at lines 324-357
MemLayout(template_key) ==
    [text |-> 18000, rodata |-> 100, data |-> 100, bss |-> 600, args |-> 4096,
     heap |-> 100,
     workspace |-> IF template_key = "partial_im2col" THEN 132000 ELSE 13000,
     stack |-> 128]

\* lines 323-357: a recognised key replaces DEV_CONFIG['mem_layout']
UpdateLayout ==
    /\ pc = "upd_enter"
    /\ ~EnvMissing
    /\ CurrentKey \in KnownTemplateKeys
    /\ DEV_CONFIG' = DictSet(DEV_CONFIG, "mem_layout", MemLayout(CurrentKey))
    /\ pc' = "upd_write"
    /\ UNCHANGED <<cfgvars, error, raised_in, generated, cfg_files, warnings,
                   mainvars, gtvars, tmvars, fsvars>>

\* lines 358-359
UpdateAssertFalse ==
    /\ pc = "upd_enter"
    /\ ~EnvMissing
    /\ CurrentKey \notin KnownTemplateKeys
    /\ Abort("AssertionError", "update_rpc_server_dev_cfg")
    /\ UNCHANGED <<cfgvars, devvars, mainvars, gtvars, tmvars, fsvars>>

\* the next i of `for i in range(10)`: the files written so far are 0..i-1
NextFileIndex == Cardinality(DOMAIN cfg_files)

\* lines 362-365, one iteration: the port is stored, then the f-string of
\* line 364 reads the name RPC_SERVER_DEV_CONFIG_BASE (line 361 binds
\* dev_config_base) before open() is reached
UpdateWrite ==
    /\ pc = "upd_write"
    /\ NextFileIndex < NUM_RPC_SERVERS
    /\ DEV_CONFIG' = DictSet(DEV_CONFIG, "server_port",
                             BASE_SERVER_PORT + NextFileIndex)
    /\ IF Resolves("RPC_SERVER_DEV_CONFIG_BASE")
       THEN /\ cfg_files' = DictSet(cfg_files, NextFileIndex, DEV_CONFIG')
            /\ IF NextFileIndex + 1 < NUM_RPC_SERVERS
               THEN pc' = "upd_write" /\ UNCHANGED phase_log
               ELSE /\ pc' = "gt_enter"
                    /\ phase_log' = Returned("update_rpc_server_dev_cfg")
            /\ UNCHANGED <<error, raised_in>>
       ELSE /\ Abort("NameError", "update_rpc_server_dev_cfg")
            /\ UNCHANGED <<cfg_files, phase_log>>
    /\ UNCHANGED <<cfgvars, generated, warnings, template_idx, gtvars, tmvars,
                   fsvars>>

(***************************************************************************)
(* get_tasks (lines 368-419).                                              *)
(***************************************************************************)
\* what collect_conv_tasks may hand back: a list of tasks, each an object
\* of the framework, known here by its number
TaskLists == {[i \in 1..n |-> i] : n \in 0..MaxTasks}

\* len(task.config_space): the framework's answer when line 265 asks
ConfigSpaceSizes == {0, N_TRIAL - 1, N_TRIAL, N_TRIAL + 1}

\* lines 372-389: a recognised key selects the layouts
GetTasksLayout ==
    /\ pc = "gt_enter"
    /\ CurrentKey \in KnownTemplateKeys
    /\ pc' = "gt_build"
    /\ UNCHANGED <<cfgvars, error, raised_in, devvars, mainvars, gtvars,
                   tmvars, fsvars>>

\* lines 390-391
GetTasksAssertFalse ==
    /\ pc = "gt_enter"
    /\ CurrentKey \notin KnownTemplateKeys
    /\ Abort("AssertionError", "get_tasks")
    /\ UNCHANGED <<cfgvars, devvars, mainvars, gtvars, tmvars, fsvars>>

\* lines 399-402: the CNN is generated and its conv tasks are collected
GetTasksCollect ==
    /\ pc = "gt_build"
    /\ cnn_built' = TRUE
    /\ \E ts \in TaskLists : extracted' = ts
    /\ pc' = "gt_assert"
    /\ UNCHANGED <<cfgvars, error, raised_in, devvars, mainvars, tmvars, fsvars>>

\* line 407 asserting only that enough tasks were extracted
TaskCountAtLeast(ts) == Len(ts) >= NUM_EXPECTED_TASKS

\* line 407
TaskCountOk(ts) == Len(ts) = NUM_EXPECTED_TASKS

\* lines 407 and 419, and main's call of tune_model at line 432
GetTasksReturn ==
    /\ pc = "gt_assert"
    /\ TaskCountOk(extracted)
    /\ tasks' = extracted
    /\ extracted' = <<>>
    /\ cnn_built' = FALSE
    /\ phase_log' = Returned("get_tasks")
    /\ pc' = "tm_enter"
    /\ fs_at_entry' = fs
    /\ UNCHANGED <<cfgvars, error, raised_in, devvars, template_idx, summary,
                   n_parallel, cc_arg, runner, task_i, tuning, tuned, call,
                   measured, logged, pick_calls, fsvars>>

\* line 407: the assertion fails, nothing is returned
GetTasksAssertCount ==
    /\ pc = "gt_assert"
    /\ ~TaskCountOk(extracted)
    /\ Abort("AssertionError", "get_tasks")
    /\ UNCHANGED <<cfgvars, devvars, mainvars, gtvars, tmvars, fsvars>>

(***************************************************************************)
(* get_num_devices (lines 217-226).                                        *)
(***************************************************************************)
NEWLINE == "\n"
QUEUE_STATUS == "Queue Status"

\* The tracker's text summary is a sequence of text atoms: the marker text,
\* a device identifier, other text, or a line break.
Atoms == {QUEUE_STATUS, HOST_DEVICE_ID, "other", NEWLINE}
Summaries == SeqsUpTo(Atoms, MaxSummary)

\* str.split('\n'): the pieces between line breaks (one more than breaks)
RECURSIVE SplitLines(_, _)
SplitLines(text, cur) ==
    IF text = <<>> THEN <<cur>>
    ELSE IF Head(text) = NEWLINE
         THEN <<cur>> \o SplitLines(Tail(text), <<>>)
         ELSE SplitLines(Tail(text), Append(cur, Head(text)))

\* `needle in line` on strings: needle occurs as a contiguous piece
Contains(needle, line) ==
    \E i \in 0..(Len(line) - Len(needle)) :
        SubSeq(line, i + 1, i + Len(needle)) = needle

\* lines 220-226 with `continue` for the `break` of line 223
RECURSIVE CountLoopNoBreak(_, _, _, _)
CountLoopNoBreak(lines, i, dev_id, n) ==
    IF i > Len(lines) THEN n
    ELSE IF Contains(<<QUEUE_STATUS>>, lines[i])
         THEN CountLoopNoBreak(lines, i + 1, dev_id, n)
    ELSE IF Contains(<<dev_id>>, lines[i])
         THEN CountLoopNoBreak(lines, i + 1, dev_id, n + 1)
         ELSE CountLoopNoBreak(lines, i + 1, dev_id, n)

\* lines 220-226 from the line at position i on, with num_connected = n
RECURSIVE CountLoop(_, _, _, _)
CountLoop(lines, i, dev_id, n) ==
    IF i > Len(lines) THEN n
    ELSE IF Contains(<<QUEUE_STATUS>>, lines[i]) THEN n
    ELSE IF Contains(<<dev_id>>, lines[i])
         THEN CountLoop(lines, i + 1, dev_id, n + 1)
         ELSE CountLoop(lines, i + 1, dev_id, n)

get_num_devices(dev_id, text) ==
    CountLoop(SplitLines(text, <<>>), 1, dev_id, 0)

(***************************************************************************)
(* tune_model (lines 229-283).                                             *)
(***************************************************************************)
\* line 254
tmp_log_file == TmpLogFileName(log_file_name)

\* lines 230-231
TuneModelCountDevices ==
    /\ pc = "tm_enter"
    /\ N_PARALLEL = PyNone
    /\ \E text \in Summaries :
          /\ summary' = text
          /\ n_parallel' = get_num_devices(DEVICE_ID, text)
    /\ pc' = "tm_build"
    /\ UNCHANGED <<cfgvars, error, raised_in, devvars, mainvars, gtvars, tasks,
                   cc_arg, runner, task_i, tuning, tuned, call, measured,
                   logged, fs_at_entry, pick_calls, fsvars>>

\* lines 232-233
TuneModelFixedParallel ==
    /\ pc = "tm_enter"
    /\ N_PARALLEL # PyNone
    /\ n_parallel' = CHOOSE n \in N_PARALLEL : TRUE
    /\ pc' = "tm_build"
    /\ UNCHANGED <<cfgvars, error, raised_in, devvars, mainvars, gtvars, tasks,
                   summary, cc_arg, runner, task_i, tuning, tuned, call,
                   measured, logged, fs_at_entry, pick_calls, fsvars>>

\* line 238 handing over a dictionary rebuilt for the key instead of DEV_CONFIG
CrossCompilerArgRelaid ==
    DictSet(DEV_CONFIG, "mem_layout", MemLayout(CurrentKey))

\* line 238: the first argument of tvm.micro.cross_compiler
CrossCompilerArg == DEV_CONFIG

\* lines 255-256 as live code: an existing temporary log is removed
PrepareTmpLogRemoved == [fs EXCEPT ![tmp_log_file] = AbsentFile]

\* lines 253-256: the temporary log is named; nothing is done to the file
PrepareTmpLog == fs

\* lines 235-254: the build function, the runner and the measure option
TuneModelBuild ==
    /\ pc = "tm_build"
    /\ cc_arg' = CrossCompilerArg
    /\ runner' = [key |-> DEVICE_ID, port |-> TRACKER_PORT,
                  n_parallel |-> n_parallel, number |-> N_PER_TRIAL,
                  timeout |-> TIMEOUT]
    /\ fs' = PrepareTmpLog
    /\ summary' = NoSummary
    /\ task_i' = 1
    /\ pc' = "tm_for"
    /\ UNCHANGED <<cfgvars, error, raised_in, devvars, mainvars, gtvars, tasks,
                   n_parallel, tuning, tuned, call, measured, logged,
                   fs_at_entry, pick_calls>>

\* line 265 without the min
TuneNTrialUnclamped(size) == N_TRIAL

\* line 265: n_trial for a task whose config space has `size` entries
TuneNTrial(size) == Min(N_TRIAL, size)

\* line 270 logging to the final log instead of the temporary one
LogTargetFinal == log_file_name

\* line 270: the file log_to_file appends to
LogTarget == tmp_log_file

\* lines 265-270: the arguments of tuner.tune
TuneArgs(size) ==
    [n_trial |-> TuneNTrial(size),
     early_stopping |-> EARLY_STOPPING,
     bar_total |-> N_TRIAL,
     log_to |-> LogTarget,
     space |-> size]

\* lines 258-270 with a tune call that does not block: the loop moves on
\* while the tuner is still at work
TuneStartNoWait ==
    /\ pc = "tm_for"
    /\ task_i <= Len(tasks)
    /\ \E size \in ConfigSpaceSizes : call' = TuneArgs(size)
    /\ tuning' = tuning \cup {task_i}
    /\ measured' = FALSE
    /\ task_i' = task_i + 1
    /\ UNCHANGED <<cfgvars, ctlvars, devvars, mainvars, gtvars, tasks,
                   summary, n_parallel, cc_arg, runner, tuned, logged,
                   fs_at_entry, pick_calls, fsvars>>

\* lines 258-270: the next task's tuner is made and tuner.tune is called;
\* the call blocks until the tuner is through
TuneStart ==
    /\ pc = "tm_for"
    /\ task_i <= Len(tasks)
    /\ \E size \in ConfigSpaceSizes : call' = TuneArgs(size)
    /\ tuning' = tuning \cup {task_i}
    /\ measured' = FALSE
    /\ pc' = "tm_tune"
    /\ UNCHANGED <<cfgvars, error, raised_in, devvars, mainvars, gtvars, tasks,
                   summary, n_parallel, cc_arg, runner, task_i, tuned, logged,
                   fs_at_entry, pick_calls, fsvars>>

\* open(name, 'a').write(rec): the file is made when absent
AppendRecord(files, name, rec) ==
    [files EXCEPT ![name] = File(files[name].recs \o <<rec>>)]

\* inside tuner.tune: configurations are measured (there are trials to
\* run) and the log_to_file callback appends their records
TunerMeasure ==
    /\ pc = "tm_tune"
    /\ ~measured
    /\ call.n_trial > 0
    /\ measured' = TRUE
    /\ fs' = AppendRecord(fs, call.log_to, Record(CurrentKey, task_i))
    /\ logged' = Append(logged, Record(CurrentKey, task_i))
    /\ UNCHANGED <<cfgvars, ctlvars, devvars, mainvars, gtvars, tasks, summary,
                   n_parallel, cc_arg, runner, task_i, tuning, tuned, call,
                   fs_at_entry, pick_calls>>

\* tuner.tune returns; the for loop of line 258 moves on
TuneReturn ==
    /\ pc = "tm_tune"
    /\ tuning' = tuning \ {task_i}
    /\ tuned' = Append(tuned, task_i)
    /\ task_i' = task_i + 1
    /\ pc' = "tm_for"
    /\ UNCHANGED <<cfgvars, error, raised_in, devvars, mainvars, gtvars, tasks,
                   summary, n_parallel, cc_arg, runner, call, measured, logged,
                   fs_at_entry, pick_calls, fsvars>>

\* tuner.tune raises; nothing in tune_model or main catches it
TuneRaise ==
    /\ pc = "tm_tune"
    /\ tuning' = tuning \ {task_i}
    /\ Abort("TunerError", "tuner.tune")
    /\ UNCHANGED <<cfgvars, devvars, mainvars, gtvars, tasks, summary,
                   n_parallel, cc_arg, runner, task_i, tuned, call, measured,
                   logged, fs_at_entry, pick_calls, fsvars>>

\* line 258: the tasks are exhausted
TuneLoopExit ==
    /\ pc = "tm_for"
    /\ task_i > Len(tasks)
    /\ pc' = "tm_pick"
    /\ UNCHANGED <<cfgvars, error, raised_in, devvars, mainvars, gtvars,
                   tmvars, fsvars>>

\* custom_pick_best: of the records of each workload, the best ones are
\* kept, so each workload of the input is in the output once
PickBestRecords(recs) ==
    LET First(i) == \A j \in 1..(i - 1) : recs[j] # recs[i]
        F[i \in 0..Len(recs)] ==
            IF i = 0 THEN <<>>
            ELSE IF First(i) THEN Append(F[i - 1], recs[i]) ELSE F[i - 1]
    IN  F[Len(recs)]

\* line 282: the arguments of the call
PickArgs == [src |-> tmp_log_file, dst |-> log_file_name, top_k |-> TOP_K]

\* line 282: the temporary log is read and the final log is written
PickBest ==
    /\ pc = "tm_pick"
    /\ fs[tmp_log_file].exists
    /\ pick_calls' = Append(pick_calls, PickArgs)
    /\ fs' = [fs EXCEPT ![PickArgs.dst] =
                  File(PickBestRecords(fs[PickArgs.src].recs))]
    /\ pc' = "tm_remove"
    /\ UNCHANGED <<cfgvars, error, raised_in, devvars, mainvars, gtvars, tasks,
                   summary, n_parallel, cc_arg, runner, task_i, tuning, tuned,
                   call, measured, logged, fs_at_entry>>

\* line 282 when no record was ever logged: there is no file to read
PickBestNoLog ==
    /\ pc = "tm_pick"
    /\ ~fs[tmp_log_file].exists
    /\ pick_calls' = Append(pick_calls, PickArgs)
    /\ Abort("FileNotFoundError", "custom_pick_best")
    /\ UNCHANGED <<cfgvars, devvars, mainvars, gtvars, tasks, summary,
                   n_parallel, cc_arg, runner, task_i, tuning, tuned, call,
                   measured, logged, fs_at_entry, fsvars>>

\* line 283
RemoveTmpLog ==
    /\ pc = "tm_remove"
    /\ IF fs[tmp_log_file].exists
       THEN /\ fs' = [fs EXCEPT ![tmp_log_file] = AbsentFile]
            /\ pc' = "tm_return"
            /\ UNCHANGED <<error, raised_in>>
       ELSE /\ Abort("FileNotFoundError", "os.remove")
            /\ UNCHANGED fs
    /\ UNCHANGED <<cfgvars, devvars, mainvars, gtvars, tmvars>>

\* tune_model returns to main, whose for loop takes the next key
TuneModelReturn ==
    /\ pc = "tm_return"
    /\ phase_log' = Returned("tune_model")
    /\ template_idx' = template_idx + 1
    /\ tasks' = <<>>
    /\ n_parallel' = 0
    /\ cc_arg' = NoConfig
    /\ runner' = NoCall
    /\ task_i' = 0
    /\ tuned' = <<>>
    /\ call' = NoCall
    /\ measured' = FALSE
    /\ logged' = <<>>
    /\ fs_at_entry' = NoFiles
    /\ pick_calls' = <<>>
    /\ pc' = "main_for"
    /\ UNCHANGED <<cfgvars, error, raised_in, devvars, gtvars, summary, tuning,
                   fsvars>>

(***************************************************************************)
(* The program.                                                            *)
(***************************************************************************)
\* a log file an earlier run left behind
StaleFile == File(<<StaleRecord>>)

Init ==
    /\ DEVICE_ID \in DeviceIds
    /\ TEMPLATE_KEYS \in TemplateKeyLists
    /\ N_PARALLEL \in {PyNone} \cup {PyInt(n) : n \in 0..MaxParallel}
    /\ environ \in {{}, {ENV_VAR}}
    /\ pc = "load"
    /\ error = None
    /\ raised_in = None
    /\ DEV_CONFIG = NoConfig
    /\ generated = NoConfig
    /\ cfg_files = <<>>
    /\ warnings = 0
    /\ template_idx = 1
    /\ phase_log = <<>>
    /\ extracted = <<>>
    /\ cnn_built = FALSE
    /\ tasks = <<>>
    /\ summary = NoSummary
    /\ n_parallel = 0
    /\ cc_arg = NoConfig
    /\ runner = NoCall
    /\ task_i = 0
    /\ tuning = {}
    /\ tuned = <<>>
    /\ call = NoCall
    /\ measured = FALSE
    /\ logged = <<>>
    /\ fs_at_entry = NoFiles
    /\ pick_calls = <<>>
    /\ \E old \in {AbsentFile, StaleFile} : fs = [f \in FileNames |-> old]

Next ==
    \/ LoadStm32
    \/ LoadHost
    \/ LoadUnknown
    \/ MainFor
    \/ UpdateWarn
    \/ UpdateAcknowledged
    \/ UpdateLayout
    \/ UpdateAssertFalse
    \/ UpdateWrite
    \/ GetTasksLayout
    \/ GetTasksAssertFalse
    \/ GetTasksCollect
    \/ GetTasksReturn
    \/ GetTasksAssertCount
    \/ TuneModelCountDevices
    \/ TuneModelFixedParallel
    \/ TuneModelBuild
    \/ TuneStart
    \/ TunerMeasure
    \/ TuneReturn
    \/ TuneRaise
    \/ TuneLoopExit
    \/ PickBest
    \/ PickBestNoLog
    \/ RemoveTmpLog
    \/ TuneModelReturn

Spec == Init /\ [][Next]_vars

(***************************************************************************)
(* Positions of the program, by the function that is running.              *)
(***************************************************************************)
InUpdate == pc \in {"upd_enter", "upd_input", "upd_write"}
InGetTasks == pc \in {"gt_enter", "gt_build", "gt_assert"}
InTuneLoop == pc \in {"tm_for", "tm_tune"}
InTuneModel ==
    pc \in {"tm_enter", "tm_build", "tm_for", "tm_tune", "tm_pick",
            "tm_remove", "tm_return"}
AbortedIn(fn) == pc = "aborted" /\ raised_in = fn

\* the state of the environment the claims speak of
VarAbsent == "MICRO_RPC_SERVER_DEV_CONFIG_BASE" \notin environ

\* update_rpc_server_dev_cfg has ended, by return or by exception, for the
\* template key main is at
UpdateEnded ==
    \/ InGetTasks
    \/ InTuneModel
    \/ pc = "aborted" /\ raised_in # "module"

(***************************************************************************)
(* C1.  When DEVICE_ID is neither the stm32f746xx nor the host device      *)
(* identifier, the module load ends in a RuntimeError and no DEV_CONFIG is *)
(* generated.                                                              *)
(***************************************************************************)
C1_UnknownDeviceRaisesRuntimeError ==
    (AbortedIn("module") /\ DEVICE_ID \notin {STM32_DEVICE_ID, HOST_DEVICE_ID})
        => (error = "RuntimeError" /\ DEV_CONFIG = NoConfig)

(***************************************************************************)
(* C2.  With MICRO_RPC_SERVER_DEV_CONFIG_BASE in the environment and a     *)
(* recognised template key, update_rpc_server_dev_cfg ends by returning    *)
(* normally, having written exactly ten configuration files, file i with   *)
(* server_port 6666 + i and the memory layout of the key.                  *)
(***************************************************************************)
C2_TenConfigFilesWritten ==
    (UpdateEnded /\ ~VarAbsent /\ CurrentKey \in KnownTemplateKeys)
        => /\ ~AbortedIn("update_rpc_server_dev_cfg")
           /\ DOMAIN cfg_files = 0..9
           /\ \A i \in DOMAIN cfg_files :
                 /\ cfg_files[i]["server_port"] = 6666 + i
                 /\ cfg_files[i]["mem_layout"] = MemLayout(CurrentKey)

(***************************************************************************)
(* C3.  With the environment variable absent, update_rpc_server_dev_cfg    *)
(* prints the warning, waits for the operator, and returns with DEV_CONFIG *)
(* and the files untouched, whatever the template key.                     *)
(***************************************************************************)
\* the frame: one warning per call, DEV_CONFIG as generated, no file written
C3_Frame ==
    (VarAbsent /\ pc \notin {"load", "done"} /\ raised_in # "module")
        => /\ DEV_CONFIG = generated
           /\ DOMAIN cfg_files = {}
           /\ warnings = (IF pc \in {"main_for", "upd_enter"}
                          THEN template_idx - 1 ELSE template_idx)

\* C3 as stated: after the return main goes on to get_tasks and to
\* tune_model for that key, so the run does not end inside get_tasks
C3_ProceedsToTuneModel ==
    /\ C3_Frame
    /\ VarAbsent => ~AbortedIn("get_tasks")

\* C3 as amended: after the return main calls get_tasks for that key, and
\* tune_model for that key when get_tasks returns normally; get_tasks may
\* instead end the run with an AssertionError
C3_ProceedsToGetTasks ==
    /\ []C3_Frame
    /\ [][/\ (VarAbsent /\ pc = "upd_enter") => pc' = "upd_input"
          /\ pc = "upd_input" =>
                (pc' = "gt_enter" /\ template_idx' = template_idx)
          /\ (VarAbsent /\ InGetTasks) =>
                /\ template_idx' = template_idx
                /\ \/ InGetTasks'
                   \/ pc' = "tm_enter"
                   \/ AbortedIn("get_tasks")' /\ error' = "AssertionError"]_vars

C3_Witness ==
    /\ VarAbsent
    /\ pc = "tm_enter"
    /\ warnings = 2
    /\ Len(phase_log) = 5

(***************************************************************************)
(* C4.  DEV_CONFIG is built once by generate_config() and handed to        *)
(* tvm.micro.cross_compiler.                                               *)
(***************************************************************************)
\* C4 as stated: no operation changes DEV_CONFIG; what cross_compiler gets
\* is what generate_config() returned
C4_NeverChanged ==
    /\ DEV_CONFIG = generated
    /\ cc_arg # NoConfig => cc_arg = generated

\* C4 as amended: cross_compiler gets DEV_CONFIG as it stands; with the
\* environment variable absent that is what generate_config() returned; with
\* it present update_rpc_server_dev_cfg has replaced 'mem_layout' by the
\* layout of the key and may have set 'server_port'; no other key changes
C4_OnlyUpdateChanges ==
    /\ generated \in {NoConfig, HostGenerateConfig}
    /\ (pc \notin {"load"} /\ raised_in # "module") => generated # NoConfig
    /\ cc_arg # NoConfig => cc_arg = DEV_CONFIG
    /\ InTuneLoop => cc_arg # NoConfig
    /\ VarAbsent => DEV_CONFIG = generated
    /\ DOMAIN DEV_CONFIG \subseteq DOMAIN generated \cup {"server_port"}
    /\ \A k \in DOMAIN generated \ {"mem_layout", "server_port"} :
          k \in DOMAIN DEV_CONFIG /\ DEV_CONFIG[k] = generated[k]
    /\ DEV_CONFIG # generated =>
          /\ DEV_CONFIG["mem_layout"] = MemLayout(CurrentKey)
          /\ "server_port" \in DOMAIN DEV_CONFIG =>
                DEV_CONFIG["server_port"] \in 6666..6675

C4_Witness ==
    /\ pc = "tm_tune"
    /\ cc_arg = DEV_CONFIG
    /\ cc_arg = HostGenerateConfig

(***************************************************************************)
(* C5.  In a tune_model call that returns normally every task is tuned     *)
(* with its records appended to the temporary log, custom_pick_best(tmp,   *)
(* log_file_name, top_k=5) is called once, after the last task, and the    *)
(* temporary log is removed after it; on return the temporary log is gone  *)
(* and the final log exists.                                               *)
(***************************************************************************)
\* the temporary log holds what it held on entry and then what was logged
TmpLogIsEntryPlusLogged ==
    /\ fs[tmp_log_file].recs = fs_at_entry[tmp_log_file].recs \o logged
    /\ fs[tmp_log_file].exists =
          (fs_at_entry[tmp_log_file].exists \/ logged # <<>>)

C5_PickBestThenRemove ==
    /\ InTuneLoop =>
          /\ pick_calls = <<>>
          /\ TmpLogIsEntryPlusLogged
          /\ call # NoCall => call.log_to = <<DEVICE_ID, CurrentKey, "e2e", "log", "tmp">>
    /\ pc = "tm_pick" =>
          /\ pick_calls = <<>>
          /\ tuned = tasks
          /\ tuning = {}
          /\ TmpLogIsEntryPlusLogged
    /\ pc = "tm_remove" =>
          /\ tuned = tasks
          /\ Len(pick_calls) = 1
          /\ pick_calls[1].top_k = 5
          /\ pick_calls[1].src = <<DEVICE_ID, CurrentKey, "e2e", "log", "tmp">>
          /\ pick_calls[1].dst = <<DEVICE_ID, CurrentKey, "e2e", "log">>
          /\ TmpLogIsEntryPlusLogged
          /\ fs[tmp_log_file].exists
          /\ fs[log_file_name].exists
    /\ pc = "tm_return" =>
          /\ tuned = tasks
          /\ Len(pick_calls) = 1
          /\ ~fs[tmp_log_file].exists
          /\ fs[log_file_name].exists
          /\ \A i \in 1..Len(logged) :
                logged[i] \in Range(fs[log_file_name].recs)

C5_Witness ==
    /\ pc = "tm_return"
    /\ Len(logged) = 3
    /\ fs_at_entry[tmp_log_file].exists

(***************************************************************************)
(* C6.  The script is sequential: per template key, in list order, main    *)
(* runs update_rpc_server_dev_cfg, get_tasks, tune_model, each after the   *)
(* one before has returned; tune_model tunes the tasks one at a time, in   *)
(* task order, each once.                                                  *)
(***************************************************************************)
MainPhases == <<"update_rpc_server_dev_cfg", "get_tasks", "tune_model">>

\* the calls of main that have returned are the first n of the expected
\* order
PhaseLogInOrder ==
    \A n \in 1..Len(phase_log) :
        phase_log[n] = <<MainPhases[((n - 1) % 3) + 1],
                         TEMPLATE_KEYS[((n - 1) \div 3) + 1]>>

C6_Sequential ==
    /\ PhaseLogInOrder
    /\ (pc = "main_for" \/ InUpdate) => Len(phase_log) = 3 * (template_idx - 1)
    /\ InGetTasks => Len(phase_log) = 3 * (template_idx - 1) + 1
    /\ InTuneModel => Len(phase_log) = 3 * (template_idx - 1) + 2
    /\ pc = "done" => Len(phase_log) = 3 * Len(TEMPLATE_KEYS)
    /\ Cardinality(tuning) <= 1
    /\ tuning # {} => (pc = "tm_tune" /\ tuning = {task_i})
    /\ pc = "tm_tune" => tuning = {task_i}
    /\ (InTuneLoop \/ pc \in {"tm_pick", "tm_remove", "tm_return"}) =>
          /\ task_i \in 1..(Len(tasks) + 1)
          /\ tuned = [i \in 1..(task_i - 1) |-> tasks[i]]

C6_Witness ==
    /\ pc = "tm_tune"
    /\ task_i = 2
    /\ template_idx = 2

(***************************************************************************)
(* C7.  When the tuner raises while task i is tuned, the exception leaves  *)
(* tune_model as it is: no later task is tuned, custom_pick_best is not    *)
(* called, the final log is not written, and the temporary log, which      *)
(* tune_model neither deletes nor truncates before tuning, stays with the  *)
(* records appended so far.                                                *)
(***************************************************************************)
C7_TunerErrorPropagates ==
    /\ (pc = "tm_for" /\ task_i = 1) =>
          fs[tmp_log_file] = fs_at_entry[tmp_log_file]
    /\ AbortedIn("tuner.tune") =>
          /\ error = "TunerError"
          /\ task_i \in 1..Len(tasks)
          /\ tuned = [i \in 1..(task_i - 1) |-> tasks[i]]
          /\ tuning = {}
          /\ pick_calls = <<>>
          /\ fs[log_file_name] = fs_at_entry[log_file_name]
          /\ TmpLogIsEntryPlusLogged
          /\ \A i \in 1..Len(logged) : logged[i][3] <= task_i

C7_Witness ==
    /\ AbortedIn("tuner.tune")
    /\ task_i = 2
    /\ fs_at_entry[tmp_log_file].exists
    /\ Len(logged) = 2

(***************************************************************************)
(* C8.  get_tasks returns only task lists of length 3: another count fails *)
(* the assertion and nothing is returned; an unrecognised key fails an     *)
(* assertion before the CNN is generated or a task extracted; tune_model   *)
(* is never called with a list of another length.                          *)
(***************************************************************************)
C8_ThreeTasks ==
    /\ InTuneModel => Len(tasks) = 3
    /\ tasks # <<>> => Len(tasks) = 3
    /\ AbortedIn("get_tasks") =>
          /\ error = "AssertionError"
          /\ tasks = <<>>
          /\ CurrentKey \notin KnownTemplateKeys =>
                (~cnn_built /\ extracted = <<>>)
          /\ CurrentKey \in KnownTemplateKeys =>
                (cnn_built /\ Len(extracted) # 3)
    /\ (InGetTasks /\ CurrentKey \notin KnownTemplateKeys) => pc = "gt_enter"

C8_Witness ==
    /\ pc = "tm_enter"
    /\ Len(tasks) = 3
    /\ template_idx = 2

(***************************************************************************)
(* C9.  get_num_devices counts the lines of the tracker summary that hold  *)
(* the device identifier and come strictly before the first line holding   *)
(* 'Queue Status'; with N_PARALLEL None the runner's n_parallel is this    *)
(* count, otherwise it is N_PARALLEL.                                      *)
(***************************************************************************)
\* The lines of a text, each by the positions s..e it spans (e = s - 1 for
\* an empty line): a line starts at the start of the text or after a line
\* break, and ends before the next line break or at the end of the text.
LineSpans(text) ==
    {<<s, e>> \in (1..(Len(text) + 1)) \X (0..Len(text)) :
        /\ e >= s - 1
        /\ s = 1 \/ text[s - 1] = NEWLINE
        /\ e = Len(text) \/ text[e + 1] = NEWLINE
        /\ \A i \in s..e : text[i] # NEWLINE}

\* lines holding the device identifier with no marker in them or before
DeviceLinesBeforeMarker(dev_id, text) ==
    {sp \in LineSpans(text) :
        /\ \E i \in sp[1]..sp[2] : text[i] = dev_id
        /\ \A i \in 1..sp[2] : text[i] # QUEUE_STATUS}

C9_DeviceCount ==
    /\ [](/\ (pc = "tm_build" /\ N_PARALLEL = PyNone) =>
               n_parallel = Cardinality(DeviceLinesBeforeMarker(DEVICE_ID, summary))
          /\ (pc = "tm_build" /\ N_PARALLEL # PyNone) => N_PARALLEL = {n_parallel}
          /\ InTuneLoop => runner.n_parallel = n_parallel)
    /\ [][pc = "tm_build" => runner'.n_parallel = n_parallel]_vars

C9_Witness ==
    /\ pc = "tm_build"
    /\ N_PARALLEL = PyNone
    /\ n_parallel = 1
    /\ \E i, j \in 1..Len(summary) :
          /\ i < j
          /\ summary[i] = QUEUE_STATUS
          /\ summary[j] = DEVICE_ID

(***************************************************************************)
(* C10.  For every task the tuner is asked for min(N_TRIAL, size of the    *)
(* config space) trials with N_TRIAL = 500: never more than 500, never     *)
(* more than there are configurations; early stopping is 250 and the       *)
(* progress bar's total is 500 whatever the size.                          *)
(***************************************************************************)
C10_TrialCount ==
    call # NoCall =>
        /\ call.n_trial <= 500
        /\ call.n_trial <= call.space
        /\ call.n_trial = 500 \/ call.n_trial = call.space
        /\ call.early_stopping = 250
        /\ call.bar_total = 500

C10_Witness ==
    /\ pc = "tm_tune"
    /\ call.space = 499
    /\ call.n_trial = 499
    /\ call.bar_total = 500

====
